---------------------------- MODULE Spec2Model ----------------------------
(***************************************************************************)
(* Lot/Plan search pipeline of MappingKML.                                 *)
(*                                                                         *)
(*   QuerySearchPanel.onSearch   parse, fetch('/search'), normalise, store *)
(*   dummySearch                 parse, build rows, resolve after a timer  *)
(*   SearchTab.handleSearch      loading flag around dummySearch           *)
(*   App / Tabs                  tab switching mounts and unmounts         *)
(*                               SearchTab; the results live in App        *)
(*                                                                         *)
(* A text is a sequence of one-character strings.  JavaScript's undefined  *)
(* and null are the sentinels Undefined and JNull.                         *)
(***************************************************************************)
EXTENDS Naturals, Sequences, FiniteSets

VARIABLES
    text, tokens, parsed,                          \* the parser applied to one text
    data, rows, normalized,                        \* the normaliser applied to one body
    input, results, pending, issued, escaped,      \* QuerySearchPanel
    writer, last, streak, dropped,                 \* history of its store writes
    activeTab, searchResults, query, loading, inst, timers
                                                   \* App, Tabs, SearchTab

parserVars == <<text, tokens, parsed>>
normalizerVars == <<data, rows, normalized>>
panelVars == <<input, results, pending, issued, escaped, writer, last, streak, dropped>>
appVars == <<activeTab, searchResults, query, loading, inst, timers>>
vars == <<parserVars, normalizerVars, panelVars, appVars>>

---------------------------------------------------------------------------
(* Bounds *)

MaxTextLen == 4        \* longest text handed to the parser
MaxFeatures == 2       \* longest features / regions list of a response body
MaxDispatch == 3       \* fetches one QuerySearchPanel issues
MaxInputLen == 1       \* longest text typed into QuerySearchPanel
MaxQueryLen == 2       \* longest text typed into SearchTab
MaxMounts == 2         \* times SearchTab is mounted

---------------------------------------------------------------------------
(* Texts *)

Chars == {"a", "/", " ", "\n"}

PanelChars == {"a", "\n"}

TabChars == {"a", "/", "\n"}

TextsOver(alphabet, n) == UNION {[1..k -> alphabet] : k \in 0..n}

\* String.prototype.trim strips white space and line terminators.
IsSpace(c) == c \in {" ", "\n", "\t", "\r"}

RECURSIVE Split(_, _)
\* s.split(sep) for a one-character separator: always at least one piece.
Split(s, sep) ==
    IF \E i \in 1..Len(s) : s[i] = sep
    THEN LET i == CHOOSE j \in 1..Len(s) :
                      s[j] = sep /\ \A k \in 1..(j - 1) : s[k] # sep
         IN  <<SubSeq(s, 1, i - 1)>> \o Split(SubSeq(s, i + 1, Len(s)), sep)
    ELSE <<s>>

RECURSIVE TrimStart(_)
TrimStart(s) == IF s # <<>> /\ IsSpace(s[1]) THEN TrimStart(Tail(s)) ELSE s

RECURSIVE TrimEnd(_)
TrimEnd(s) ==
    IF s # <<>> /\ IsSpace(s[Len(s)]) THEN TrimEnd(SubSeq(s, 1, Len(s) - 1)) ELSE s

TrimLeftOnly(s) == TrimStart(s)

\* l => l.trim()
Trim(s) == TrimEnd(TrimStart(s))

\* Boolean(l) for a string l: the empty string is the only falsy one.
Truthy(s) == s # <<>>

\* input.split(/\n/).map(l => l.trim()).filter(Boolean)
InputParser(t) ==
    LET lines == Split(t, "\n")
        trimmed == [i \in 1..Len(lines) |-> Trim(lines[i])]
    IN  SelectSeq(trimmed, Truthy)

---------------------------------------------------------------------------
(* The parser applied to one text *)

ParserIdle == text = <<>> /\ tokens = <<>> /\ parsed = FALSE
NormalizerIdle == data = [type |-> "FeatureCollection"] /\ rows = <<>> /\ normalized = FALSE
PanelIdle ==
    /\ input = <<>> /\ results = <<>> /\ pending = {} /\ issued = 0
    /\ escaped = FALSE
    /\ writer = 0 /\ last = [error |-> "none", status |-> "none"]
    /\ streak = 0 /\ dropped = 0
AppIdle ==
    /\ activeTab = "map" /\ searchResults = <<>> /\ query = <<>>
    /\ loading = FALSE /\ inst = 0 /\ timers = {}

InitParser ==
    /\ text \in TextsOver(Chars, MaxTextLen)
    /\ tokens = <<>>
    /\ parsed = FALSE
    /\ NormalizerIdle /\ PanelIdle /\ AppIdle

Parse ==
    /\ ~parsed
    /\ tokens' = InputParser(text)
    /\ parsed' = TRUE
    /\ UNCHANGED <<text, normalizerVars, panelVars, appVars>>

NextParser == Parse

SpecParser == InitParser /\ [][NextParser]_vars

---------------------------------------------------------------------------
(* The lines of a text by positions: a core is the stretch from the first  *)
(* to the last non-blank character of one line.                            *)

NoBreak(t, from, to) == \A k \in from..to : t[k] # "\n"

IsCore(t, s, e) ==
    /\ s <= e
    /\ ~IsSpace(t[s]) /\ ~IsSpace(t[e])
    /\ NoBreak(t, s, e)
    /\ \A j \in 1..(s - 1) : NoBreak(t, j, s - 1) => IsSpace(t[j])
    /\ \A j \in (e + 1)..Len(t) : NoBreak(t, e + 1, j) => IsSpace(t[j])

Cores(t) == {c \in (1..Len(t)) \X (1..Len(t)) : IsCore(t, c[1], c[2])}

(* C4: for every text, the parsed token sequence is the sequence of the    *)
(* text's lines, each trimmed, with the lines that are blank after         *)
(* trimming removed: no token is empty or white space only, the order of   *)
(* the lines is kept and so is every duplicate.                            *)
C4_TokensAreTrimmedNonBlankLines ==
    parsed =>
        /\ Len(tokens) = Cardinality(Cores(text))
        /\ \A c \in Cores(text) :
               LET k == Cardinality({d \in Cores(text) : d[1] <= c[1]})
               IN  tokens[k] = SubSeq(text, c[1], c[2])
        /\ \A i \in 1..Len(tokens) :
               /\ tokens[i] # <<>>
               /\ \E k \in 1..Len(tokens[i]) : ~IsSpace(tokens[i][k])

\* A text with a blank line and a repeated line: the blank one is dropped,
\* both copies are kept.
C4_Witness ==
    /\ parsed
    /\ Len(Split(text, "\n")) > Len(tokens)
    /\ Len(tokens) = 2
    /\ tokens[1] = tokens[2]

---------------------------------------------------------------------------
(* Response bodies and the normaliser of onSearch *)

Undefined == "<undefined>"
JNull == [type |-> "null"]

Keys == {"lot", "plan", "lotnumber", "planlabel"}

SampleValue(k) ==
    CASE k = "lot" -> "12"
      [] k = "plan" -> "DP753311"
      [] k = "lotnumber" -> "1"
      [] k = "planlabel" -> "RP912949"

\* Property bags: any subset of the four keys the code reads.
Bags == {[k \in S |-> SampleValue(k)] : S \in SUBSET Keys}

EmptyBag == [k \in {} |-> ""]

Geometries == {"polygonA", "polygonB"}

Features ==
    {JNull}
    \cup {[type |-> "Feature", geometry |-> g] : g \in Geometries}
    \cup {[type |-> "Feature", geometry |-> g, properties |-> b] :
              g \in Geometries, b \in Bags}

Tags == {"QLD", "NSW"}

SeqsUpTo(S, n) == UNION {[1..k -> S] : k \in 0..n}

\* A regions list, or <<Undefined>> for a body without one.
RegionChoices == {<<Undefined>>} \cup SeqsUpTo(Tags, MaxFeatures)

\* What res.json() may resolve to: null, or an object with or without
\* features and with or without regions.
Body(withFeatures, fs, rs) ==
    IF withFeatures
    THEN IF rs = <<Undefined>>
         THEN [type |-> "FeatureCollection", features |-> fs]
         ELSE [type |-> "FeatureCollection", features |-> fs, regions |-> rs]
    ELSE IF rs = <<Undefined>>
         THEN [type |-> "FeatureCollection"]
         ELSE [type |-> "FeatureCollection", regions |-> rs]

\* o[k] || []
ListOrEmpty(o, k) == IF k \in DOMAIN o THEN o[k] ELSE <<>>

\* props[k], undefined when the key is missing
Prop(props, k) == IF k \in DOMAIN props THEN props[k] ELSE Undefined

\* v || ''
OrEmpty(v) == IF v \in {Undefined, ""} THEN "" ELSE v

\* f.properties || {}
PropsOf(f) == IF "properties" \in DOMAIN f THEN f.properties ELSE EmptyBag

\* regions[idx], undefined past the end
TagAt(regions, i) == IF i \in 1..Len(regions) THEN regions[i] ELSE Undefined

RowSwapped(f, i, regions) ==
    LET props == PropsOf(f)
    IN  IF TagAt(regions, i) # "QLD"
        THEN [id |-> i, lot |-> Prop(props, "lot"), plan |-> Prop(props, "plan")]
        ELSE [id |-> i, lot |-> Prop(props, "lotnumber"),
              plan |-> OrEmpty(Prop(props, "planlabel"))]

\* The callback of features.map; i is idx + 1.
Row(f, i, regions) ==
    LET props == PropsOf(f)
    IN  IF TagAt(regions, i) = "QLD"
        THEN [id |-> i, lot |-> Prop(props, "lot"), plan |-> Prop(props, "plan")]
        ELSE [id |-> i, lot |-> Prop(props, "lotnumber"),
              plan |-> OrEmpty(Prop(props, "planlabel"))]

\* data.features and f.properties are TypeErrors on null.
Throws(d) ==
    \/ d = JNull
    \/ \E i \in 1..Len(ListOrEmpty(d, "features")) : d.features[i] = JNull

\* Lines 17-29: the rows handed to setResults when nothing throws.
Normalize(d) ==
    LET features == ListOrEmpty(d, "features")
        regions == ListOrEmpty(d, "regions")
    IN  [i \in 1..Len(features) |-> Row(features[i], i, regions)]

\* The exception the try block raises for a reply, "none" when it completes:
\* fetch rejects, res.json() rejects, or the normaliser dereferences null.
\* The status of the response is never read.
Thrown(resp) ==
    IF resp.kind = "reject" THEN "NetworkError"
    ELSE IF ~resp.parses THEN "SyntaxError"
    ELSE IF Throws(resp.data) THEN "TypeError"
    ELSE "none"

CaughtOnlyTypeError(err) == err = "TypeError"

\* catch (err): the clause takes every exception of the try block.
Caught(err) == err \in {"NetworkError", "SyntaxError", "TypeError"}

\* The continuation of onSearch once the reply is in: whether setResults is
\* called, with what, and whether an exception leaves the handler.
Completion(resp) ==
    LET err == Thrown(resp)
    IN  IF err = "none"
        THEN [set |-> TRUE, rows |-> Normalize(resp.data), escapes |-> FALSE]
        ELSE IF Caught(err)
             THEN [set |-> TRUE, rows |-> <<>>, escapes |-> FALSE]
             ELSE [set |-> FALSE, rows |-> <<>>, escapes |-> TRUE]

Parsed(ok, d) == [kind |-> "response", ok |-> ok, parses |-> TRUE, data |-> d]

---------------------------------------------------------------------------
(* The normaliser applied to one body *)

InitNormalizer ==
    /\ \/ data = JNull
       \/ \E rs \in RegionChoices : data = Body(FALSE, <<>>, rs)
       \/ \E fs \in SeqsUpTo(Features, MaxFeatures), rs \in RegionChoices :
              data = Body(TRUE, fs, rs)
    /\ rows = <<>>
    /\ normalized = FALSE
    /\ ParserIdle /\ PanelIdle /\ AppIdle

ApplyNormalizer ==
    /\ ~normalized
    /\ rows' = Completion(Parsed(TRUE, data)).rows
    /\ normalized' = TRUE
    /\ UNCHANGED <<data, parserVars, panelVars, appVars>>

NextNormalizer == ApplyNormalizer

SpecNormalizer == InitNormalizer /\ [][NextNormalizer]_vars

\* The body normalises without an exception.
Clean(d) ==
    /\ d # JNull
    /\ \A i \in 1..Len(ListOrEmpty(d, "features")) : d.features[i] # JNull

FeaturesOf(d) == ListOrEmpty(d, "features")

\* The keys the specification assigns to the feature at position i.
ExpectedKeys(d, i) ==
    IF "regions" \in DOMAIN d /\ i <= Len(d.regions) /\ d.regions[i] = "QLD"
    THEN [lot |-> "lot", plan |-> "plan"]
    ELSE [lot |-> "lotnumber", plan |-> "planlabel"]

(* C6: the feature at index i gives its lot and plan from the keys lot and *)
(* plan when regions[i] is QLD and from lotnumber and planlabel for any    *)
(* other tag, a missing regions list or one shorter than features counting *)
(* as another tag; a field whose key is missing comes from no other key.   *)
C6_RegionSelectsKeys ==
    (normalized /\ Clean(data)) =>
        /\ Len(rows) = Len(FeaturesOf(data))
        /\ \A i \in 1..Len(rows) :
               LET props == PropsOf(data.features[i])
                   keys == ExpectedKeys(data, i)
               IN  /\ IF keys.lot \in DOMAIN props
                      THEN rows[i].lot = props[keys.lot]
                      ELSE rows[i].lot \in {Undefined, ""}
                   /\ IF keys.plan \in DOMAIN props
                      THEN rows[i].plan = props[keys.plan]
                      ELSE rows[i].plan \in {Undefined, ""}

\* Two features carrying all four keys, regions = ['QLD']: the first is read
\* as QLD, the second, past the end of regions, as another region.
C6_Witness ==
    /\ normalized
    /\ Clean(data)
    /\ Len(FeaturesOf(data)) = 2
    /\ "regions" \in DOMAIN data /\ data.regions = <<"QLD">>
    /\ \A i \in 1..2 : DOMAIN PropsOf(data.features[i]) = Keys
    /\ rows[1].lot = "12" /\ rows[1].plan = "DP753311"
    /\ rows[2].lot = "1" /\ rows[2].plan = "RP912949"

(* C7: every record of the store has a lot and a plan that are strings,    *)
(* never undefined: a feature lacking its region's keys, or having no      *)
(* properties, gets the empty string for both.                             *)
C7_LotAndPlanAreStrings ==
    (normalized /\ Clean(data)) =>
        \A i \in 1..Len(rows) :
            LET props == PropsOf(data.features[i])
                keys == ExpectedKeys(data, i)
            IN  /\ rows[i].lot # Undefined
                /\ rows[i].plan # Undefined
                /\ keys.lot \notin DOMAIN props => rows[i].lot = ""
                /\ keys.plan \notin DOMAIN props => rows[i].plan = ""

(* C9: every record placed in the store by a successful search carries the *)
(* geometry of the feature at the same index, unchanged.                   *)
C9_GeometryCarriedThrough ==
    (normalized /\ Clean(data)) =>
        \A i \in 1..Len(rows) :
            /\ "geometry" \in DOMAIN rows[i]
            /\ rows[i].geometry = data.features[i].geometry

---------------------------------------------------------------------------
(* QuerySearchPanel: any number of onSearch calls may be awaiting a reply. *)
(* Between the two awaits (fetch, res.json()) the handler touches no state *)
(* of the component, so a reply is taken in one step.                      *)
(*                                                                         *)
(* History, read by no action: writer is the number of the dispatch whose  *)
(* reply wrote the store last, last the error and status of that reply,    *)
(* streak the number of failed replies in a row ending with it, dropped    *)
(* the number of rows the first failure of that streak removed.            *)

Feature(g, b) == [type |-> "Feature", geometry |-> g, properties |-> b]

\* The end-to-end response of the specification, section 8.
EndToEndBody ==
    [type |-> "FeatureCollection",
     features |-> <<Feature("polygonA", [k \in {"lot", "plan"} |-> SampleValue(k)]),
                    Feature("polygonB",
                            [k \in {"lotnumber", "planlabel"} |-> SampleValue(k)])>>,
     regions |-> <<"QLD", "NSW">>]

SampleBodies ==
    { JNull,
      [type |-> "FeatureCollection", features |-> <<>>],
      [type |-> "FeatureCollection",
       features |-> <<[type |-> "Feature", geometry |-> "polygonA"]>>],
      EndToEndBody }

\* What the resolver may answer: a transport error, or a response of either
\* status whose body parses or not.
Replies ==
    {[kind |-> "reject"]}
    \cup {[kind |-> "response", ok |-> ok, parses |-> FALSE] : ok \in BOOLEAN}
    \cup {Parsed(ok, d) : ok \in BOOLEAN, d \in SampleBodies}

StatusOf(resp) ==
    IF resp.kind = "reject" THEN "none" ELSE IF resp.ok THEN "ok" ELSE "error"

InitPanel ==
    /\ PanelIdle
    /\ ParserIdle /\ NormalizerIdle /\ AppIdle

\* onChange={e => setInput(e.target.value)}
SetInput(t) ==
    /\ input' = t
    /\ UNCHANGED <<results, pending, issued, escaped, writer, last, streak, dropped>>
    /\ UNCHANGED <<parserVars, normalizerVars, appVars>>

\* onSearch up to its first await: parse, return on no query, else fetch.
OnSearch ==
    LET queries == InputParser(input)
    IN  /\ IF Len(queries) = 0
           THEN UNCHANGED <<pending, issued>>
           ELSE /\ issued < MaxDispatch
                /\ issued' = issued + 1
                /\ pending' = pending \cup {[seq |-> issued + 1, queries |-> queries]}
        /\ UNCHANGED <<input, results, escaped, writer, last, streak, dropped>>
        /\ UNCHANGED <<parserVars, normalizerVars, appVars>>

\* onSearch from the reply on: normalise and setResults(rows), or catch and
\* setResults([]).
Settle(p, resp) ==
    LET c == Completion(resp)
        failed == Thrown(resp) # "none"
    IN  /\ p \in pending
        /\ pending' = pending \ {p}
        /\ results' = IF c.set THEN c.rows ELSE results
        /\ escaped' = (escaped \/ c.escapes)
        /\ writer' = IF c.set THEN p.seq ELSE writer
        /\ last' = [error |-> Thrown(resp), status |-> StatusOf(resp)]
        /\ streak' = IF failed THEN streak + 1 ELSE 0
        /\ dropped' = IF ~failed THEN 0
                      ELSE IF streak = 0 THEN Len(results) ELSE dropped
        /\ UNCHANGED <<input, issued>>
        /\ UNCHANGED <<parserVars, normalizerVars, appVars>>

NextPanel ==
    \/ \E t \in TextsOver(PanelChars, MaxInputLen) : SetInput(t)
    \/ OnSearch
    \/ \E p \in pending, resp \in Replies : Settle(p, resp)

SpecPanel == InitPanel /\ [][NextPanel]_vars

(* C1: a reply to an older dispatch never replaces the store once a newer  *)
(* dispatch has written it, so that when every dispatch has settled the    *)
(* store holds the records of the search issued last.                      *)
C1_StoreHoldsLatestSearch ==
    (pending = {} /\ issued > 0) => writer = issued

(* C2: a reply that fails (the request rejects, or the body does not       *)
(* parse) leaves the store empty whatever it held, a second failure in a   *)
(* row leaves it empty again, and no exception leaves the handler.         *)
C2_FailureClearsStore ==
    /\ ~escaped
    /\ last.error \in {"NetworkError", "SyntaxError"} => results = <<>>

\* Two failures in a row, the first of which removed rows from the store.
C2_Witness ==
    /\ last.error \in {"NetworkError", "SyntaxError"}
    /\ streak >= 2
    /\ dropped > 0
    /\ results = <<>>
    /\ ~escaped

(* C3: a reply with a non-success status is a dispatch failure: the store  *)
(* ends up empty, whatever the body holds.                                 *)
C3_ErrorStatusClearsStore ==
    last.status = "error" => results = <<>>

---------------------------------------------------------------------------
(* App, Tabs and SearchTab.  App owns activeTab and searchResults and      *)
(* renders SearchTab only while the search tab is active, so SearchTab's   *)
(* query and loading are created on every mount and lost on every unmount. *)
(* A timer is a dummySearch call that has not resolved: the instance of    *)
(* SearchTab that made it, its argument and the rows it will resolve to.   *)

\* An optional piece: <<p>> when the split has a k-th piece, <<>> for undefined.
Piece(parts, k) == IF k <= Len(parts) THEN <<parts[k]>> ELSE <<>>

\* v || '' for an optional text
TextOrEmpty(opt) == IF opt = <<>> \/ opt[1] = <<>> THEN <<>> ELSE opt[1]

\* dummySearch: the rows its promise resolves to.
dummySearch(t) ==
    LET lines == InputParser(t)
    IN  [i \in 1..Len(lines) |->
            LET parts == Split(lines[i], "/")
            IN  [id |-> i - 1,
                 lot |-> TextOrEmpty(Piece(parts, 1)),
                 plan |-> TextOrEmpty(Piece(parts, 2))]]

InitApp ==
    /\ activeTab = "map"
    /\ searchResults = <<>>
    /\ query = <<>>
    /\ loading = FALSE
    /\ inst = 0
    /\ timers = {}
    /\ ParserIdle /\ NormalizerIdle /\ PanelIdle

\* Tabs: onClick={() => onChange(t.id)} with onChange = setActiveTab.
TabChange(id) ==
    /\ activeTab' = id
    /\ IF id = activeTab
       THEN UNCHANGED <<query, loading, inst>>
       ELSE IF id = "search"
            THEN /\ inst < MaxMounts
                 /\ inst' = inst + 1
                 /\ query' = <<>>
                 /\ loading' = FALSE
            ELSE /\ query' = <<>>
                 /\ loading' = FALSE
                 /\ UNCHANGED inst
    /\ UNCHANGED <<searchResults, timers>>
    /\ UNCHANGED <<parserVars, normalizerVars, panelVars>>

\* onChange={e => setQuery(e.target.value)}
SetQuery(t) ==
    /\ activeTab = "search"
    /\ query' = t
    /\ UNCHANGED <<activeTab, searchResults, loading, inst, timers>>
    /\ UNCHANGED <<parserVars, normalizerVars, panelVars>>

\* handleSearch up to its await; the button is disabled while loading.
HandleSearch ==
    /\ activeTab = "search"
    /\ ~loading
    /\ loading' = TRUE
    /\ timers' = timers \cup {[inst |-> inst, input |-> query, res |-> dummySearch(query)]}
    /\ UNCHANGED <<activeTab, searchResults, query, inst>>
    /\ UNCHANGED <<parserVars, normalizerVars, panelVars>>

\* handleSearch after its await: setResults(res); setLoading(false), which
\* reaches only the instance that made the call, if it is still mounted.
TimerFires(t) ==
    /\ t \in timers
    /\ timers' = timers \ {t}
    /\ searchResults' = t.res
    /\ loading' = IF activeTab = "search" /\ t.inst = inst THEN FALSE ELSE loading
    /\ UNCHANGED <<activeTab, query, inst>>
    /\ UNCHANGED <<parserVars, normalizerVars, panelVars>>

NextApp ==
    \/ \E id \in {"map", "search"} : TabChange(id)
    \/ \E t \in TextsOver(TabChars, MaxQueryLen) : SetQuery(t)
    \/ HandleSearch
    \/ \E t \in timers : TimerFires(t)

SpecApp == InitApp /\ [][NextApp]_vars

(* C5: the records placed in the store have the ids 1..N in response       *)
(* order, on every search path, the SearchTab / dummySearch path included. *)
C5_IdsAreOneToN ==
    \A i \in 1..Len(searchResults) : searchResults[i].id = i

(* C8: a search whose input parses to no token is a no-op on every entry   *)
(* point, SearchTab.handleSearch included: it issues no dispatch.          *)
C8_NoDispatchOnEmptyInput ==
    \A t \in timers : InputParser(t.input) # <<>>

(* C10: in SearchTab the loading flag keeps at most one dispatch in flight *)
(* at any time, across search clicks and Map / Search tab switches.        *)
C10_AtMostOneInFlight ==
    Cardinality(timers) <= 1

===========================================================================
